---- MODULE Spec2Model ----
(***************************************************************************)
(* django-reviews: the admin module (reviews/admin.py).                    *)
(*                                                                         *)
(* Strings are sequences of one-character strings, so that formatting,     *)
(* title-casing and URL reversal are computed rather than assumed.  A      *)
(* literal of the source that is never taken apart ("admin:", "<a href='") *)
(* is kept as one element.                                                 *)
(***************************************************************************)
EXTENDS Integers, Sequences, FiniteSets, TLC

\* ------------------------------------------------------------ the bounds

\* The longest list get_reviewable_model_classes() returns.
MaxClasses == 2

\* The number of Reviews ever submitted (the last primary key handed out).
MaxReviews == 2

\* -------------------------------------------------------------- strings

\* The letters of the names below, each lower-case letter with its capital.
ToUpper ==
    "a" :> "A" @@ "b" :> "B" @@ "c" :> "C" @@ "d" :> "D" @@ "p" :> "P" @@ "q" :> "Q"

ToLower ==
    "A" :> "a" @@ "B" :> "b" @@ "C" :> "c" @@ "D" :> "d" @@ "P" :> "p" @@ "Q" :> "q"

islower(c) == c \in DOMAIN ToUpper

isupper(c) == c \in DOMAIN ToLower

upper(c) == IF islower(c) THEN ToUpper[c] ELSE c

lower(c) == IF isupper(c) THEN ToLower[c] ELSE c

RECURSIVE title_from(_, _, _)
\* str.title(), from position i on, with the scan's previous_is_cased flag.
title_from(s, i, previous_is_cased) ==
    IF i > Len(s) THEN <<>>
    ELSE IF islower(s[i])
         THEN <<IF previous_is_cased THEN s[i] ELSE upper(s[i])>>
              \o title_from(s, i + 1, TRUE)
    ELSE IF isupper(s[i])
         THEN <<IF previous_is_cased THEN lower(s[i]) ELSE s[i]>>
              \o title_from(s, i + 1, TRUE)
    ELSE <<s[i]>> \o title_from(s, i + 1, FALSE)

\* name.title() (admin.py lines 20 and 55).
title(s) == title_from(s, 1, FALSE)

Digits == <<"0", "1", "2", "3", "4", "5", "6", "7", "8", "9">>

RECURSIVE str_int(_)
\* The decimal text of a natural number: what %s and reverse() make of an id.
str_int(n) ==
    IF n < 10 THEN <<Digits[n + 1]>>
    ELSE str_int(n \div 10) \o <<Digits[(n % 10) + 1]>>

\* An optional value: None, or a value v.
None == [none |-> TRUE, v |-> <<>>]

Some(x) == [none |-> FALSE, v |-> x]

\* ------------------------------------------------ the installed models

\* The model classes of the project that may be review targets: two
\* Product classes of different applications, and two classes whose
\* application label and model name both hold an underscore.
ModelClasses ==
    { [app_label |-> <<"a">>, object_name |-> <<"P", "q">>,
       verbose_name |-> <<"p", "q">>],
      [app_label |-> <<"b">>, object_name |-> <<"P", "q">>,
       verbose_name |-> <<"p", "q">>],
      [app_label |-> <<"a">>, object_name |-> <<"B", "_", "c">>,
       verbose_name |-> <<"b", "_", "c">>],
      [app_label |-> <<"a", "_", "b">>, object_name |-> <<"C">>,
       verbose_name |-> <<"c", "D">>] }

\* ContentType.objects.get_for_model(klass): the row keyed by the class's
\* application label and lower-cased class name; its name is the class's
\* verbose name.
get_for_model(klass) ==
    [app_label |-> klass.app_label,
     model |-> [i \in 1..Len(klass.object_name) |-> lower(klass.object_name[i])],
     name |-> klass.verbose_name]

ContentTypes == {get_for_model(k) : k \in ModelClasses}

\* The primary keys of the records a Review may point to.
ObjectIds == {12}

\* Every record of every installed model class; a record's name is what
\* Product gives its rows (a CharField).
AllObjects ==
    { [content_type |-> get_for_model(k), id |-> i, name |-> <<"n">> \o str_int(i)] :
        k \in ModelClasses, i \in ObjectIds }

\* Product.__unicode__: a record's string form is its name.
unicode(record) == record.name

Users == {"ann", "bob"}

Scores == {1, 5}

Comments == {<<>>, <<"o", "k">>}

\* ------------------------------------------------------------ the state

VARIABLES
    model_classes,  \* what get_reviewable_model_classes() returns
    admin_site,     \* the model classes registered with the admin site
    objects,        \* the stored records of the reviewable models
    reviews,        \* the stored Review rows
    last_id,        \* the last Review primary key handed out
    response        \* what the last request or call produced

vars == <<model_classes, admin_site, objects, reviews, last_id, response>>

RECURSIVE SeqsUpTo(_, _)
\* The sequences of at most n elements of S.
SeqsUpTo(S, n) ==
    IF n = 0 THEN {<<>>}
    ELSE {<<>>} \cup { <<x>> \o t : x \in S, t \in SeqsUpTo(S, n - 1) }

NoRepeat(s) == \A i, j \in 1..Len(s) : s[i] = s[j] => i = j

Range(s) == {s[i] : i \in 1..Len(s)}

\* The project's configuration is any list of reviewable classes and any
\* set of classes registered with the admin; no Review is stored yet.
Init ==
    /\ model_classes \in {s \in SeqsUpTo(ModelClasses, MaxClasses) : NoRepeat(s)}
    /\ admin_site \in SUBSET ModelClasses
    /\ objects = AllObjects
    /\ reviews = {}
    /\ last_id = 0
    /\ response = [op |-> "none"]

\* ----------------------------------------------- the rows and instances

\* A freshly submitted Review row.
NewReview(id, ct, object_id, user, score, comment, anonymous) ==
    [id |-> id, content_type |-> ct, object_id |-> object_id, user |-> user,
     score |-> score, comment |-> comment, anonymous |-> anonymous,
     comment_approved |-> FALSE, created |-> id, is_updated |-> FALSE]

\* Review.reviewed_object, the generic foreign key: the record the
\* (content_type, object_id) pair names, or None when there is none.
reviewed_object(row) ==
    LET found == {o \in objects : o.content_type = row.content_type /\ o.id = row.object_id}
    IN  IF found = {} THEN None ELSE Some(CHOOSE o \in found : TRUE)

\* The Review instance the admin hands to a column callable.
Instance(row) ==
    [id |-> row.id, content_type |-> row.content_type, object_id |-> row.object_id,
     reviewed_object |-> reviewed_object(row), user |-> row.user, score |-> row.score,
     comment |-> row.comment, anonymous |-> row.anonymous,
     comment_approved |-> row.comment_approved, created |-> row.created,
     is_updated |-> row.is_updated]

RECURSIVE SortById(_)
\* The rows of S in primary-key order.
SortById(S) ==
    IF S = {} THEN <<>>
    ELSE LET first == CHOOSE r \in S : \A o \in S : r.id <= o.id
         IN  <<first>> \o SortById(S \ {first})

\* Review.objects.all(): the changelist's root queryset.
root_queryset == SortById(reviews)

\* ------------------------------------------- users and reviewed records

\* An end user submits a review of an existing record of a reviewable type.
SubmitReview(klass, object_id, user, score, comment, anonymous) ==
    /\ last_id < MaxReviews
    /\ klass \in Range(model_classes)
    /\ \E o \in objects : o.content_type = get_for_model(klass) /\ o.id = object_id
    /\ reviews' = reviews \cup
            {NewReview(last_id + 1, get_for_model(klass), object_id, user, score,
                       comment, anonymous)}
    /\ last_id' = last_id + 1
    /\ UNCHANGED <<model_classes, admin_site, objects, response>>

\* A reviewed record is removed from its table; Reviews of it stay behind.
DeleteObject(o) ==
    /\ o \in objects
    /\ objects' = objects \ {o}
    /\ UNCHANGED <<model_classes, admin_site, reviews, last_id, response>>

\* -------------------------------------------- the reviewable-type list

\* get_reviewable_models() with the label left as the name.
get_reviewable_models_untitled ==
    [i \in 1..Len(model_classes) |->
        <<get_for_model(model_classes[i]).name,
          get_for_model(model_classes[i]).name>>]

\* get_reviewable_models(): one (name, name.title()) pair per class, in the
\* order of get_reviewable_model_classes().
get_reviewable_models ==
    [i \in 1..Len(model_classes) |->
        <<get_for_model(model_classes[i]).name,
          title(get_for_model(model_classes[i]).name)>>]

\* A direct call of get_reviewable_models().
GetReviewableModels ==
    /\ response' = [op |-> "get_reviewable_models", result |-> get_reviewable_models]
    /\ UNCHANGED <<model_classes, admin_site, objects, reviews, last_id>>

\* ------------------------------------------------------------ the filter

\* lookups with the threshold one too low.
lookups_from_one ==
    IF Len(get_reviewable_models) < 1
    THEN None
    ELSE Some(get_reviewable_models)

\* ReviewedModelListFilter.lookups: None for fewer than two entries.
lookups ==
    IF Len(get_reviewable_models) < 2
    THEN None
    ELSE Some(get_reviewable_models)

\* queryset.filter(content_type__name=value): the rows whose content type's
\* name is the value, in the queryset's order.
filter_content_type__name(qs, value) ==
    SelectSeq(qs, LAMBDA r : r.content_type.name = value)

\* queryset without its test of the value: it filters by whatever
\* value() is.
queryset_unguarded(value, qs) == Some(filter_content_type__name(qs, value.v))

\* ReviewedModelListFilter.queryset: the filtered queryset, or None (the
\* method falls off its end) when no value is selected.
queryset(value, qs) ==
    IF ~value.none
    THEN Some(filter_content_type__name(qs, value.v))
    ELSE None

\* What the reviewed_model parameter of a request may hold: nothing, a
\* content type's name, or a display label.
RequestValues ==
    {None} \cup {Some(ct.name) : ct \in ContentTypes}
           \cup {Some(title(ct.name)) : ct \in ContentTypes}

\* ChangeList.get_queryset with this one filter: a filter that has choices
\* is applied, and a None from its queryset() leaves the list as it was.
get_queryset(value, qs, lookup_choices) ==
    LET has_output == ~lookup_choices.none /\ Len(lookup_choices.v) > 0
        new_qs == IF has_output THEN queryset(value, qs) ELSE None
    IN  [op |-> "changelist", value |-> value, qs |-> qs,
         lookup_choices |-> lookup_choices, applied |-> has_output,
         returned |-> new_qs,
         shown |-> IF new_qs.none THEN qs ELSE new_qs.v]

\* The changelist request: the filter is built from the request, its
\* choices are asked for, and the list to show is computed.
ChangeListView(value) ==
    /\ response' = get_queryset(value, root_queryset, lookups)
    /\ UNCHANGED <<model_classes, admin_site, objects, reviews, last_id>>

\* -------------------------------------------------- the admin's routes

\* ModelAdmin.get_urls under AdminSite.get_urls: each registered class has
\* a changelist route and a change route, named from its application label
\* and model name, below /admin/<app_label>/<model>/.
admin_urls ==
    UNION { LET ct == get_for_model(k)
                base == <<"/admin/">> \o ct.app_label \o <<"/">> \o ct.model \o <<"/">>
                info == <<"admin:">> \o ct.app_label \o <<"_">> \o ct.model
            IN  { [name |-> info \o <<"_changelist">>, nargs |-> 0, path |-> base],
                  [name |-> info \o <<"_change">>, nargs |-> 1, path |-> base] }
            : k \in admin_site }

\* reverse(viewname, args=args): the URL of a route of that name taking
\* that many arguments.  Routes that share a name are told apart only by
\* the order the classes were registered in, so each is a possible answer;
\* no route at all is NoReverseMatch (the empty set).
reverse(viewname, args) ==
    { r.path \o (IF r.nargs = 1 THEN str_int(args[1]) \o <<"/">> ELSE <<>>) :
        r \in {u \in admin_urls : u.name = viewname /\ u.nargs = Len(args)} }

\* "<a href='%s'>%s</a>" % (url, label)
anchor(url, label) == <<"<a href='">> \o url \o <<"'>">> \o label \o <<"</a>">>

Raised(error) == [outcome |-> error, html |-> <<>>]

Returned(html) == [outcome |-> "ok", html |-> html]

\* --------------------------------------------------- the link renderers

\* reviewed_model_linked(obj): the outcomes the call may have.
reviewed_model_linked(obj) ==
    LET urls == reverse(<<"admin:">> \o obj.content_type.app_label \o <<"_">>
                            \o obj.content_type.model \o <<"_changelist">>,
                        <<>>)
    IN  IF urls = {}
        THEN {Raised("NoReverseMatch")}
        ELSE {Returned(anchor(url, title(obj.content_type.name))) : url \in urls}

\* reviewed_object_linked with the Review's own id in the URL.
reviewed_object_linked_own_id(obj) ==
    IF obj.reviewed_object.none
    THEN {Raised("AttributeError")}
    ELSE LET urls == reverse(<<"admin:">> \o obj.content_type.app_label \o <<"_">>
                                 \o obj.content_type.model \o <<"_change">>,
                             <<obj.id>>)
         IN  IF urls = {}
             THEN {Raised("NoReverseMatch")}
             ELSE {Returned(anchor(url, unicode(obj.reviewed_object.v))) : url \in urls}

\* reviewed_object_linked with a fallback for a reference that resolves to
\* nothing.
reviewed_object_linked_fallback(obj) ==
    IF obj.reviewed_object.none
    THEN {Returned(<<>>)}
    ELSE LET urls == reverse(<<"admin:">> \o obj.content_type.app_label \o <<"_">>
                                 \o obj.content_type.model \o <<"_change">>,
                             <<obj.reviewed_object.v.id>>)
         IN  IF urls = {}
             THEN {Raised("NoReverseMatch")}
             ELSE {Returned(anchor(url, unicode(obj.reviewed_object.v))) : url \in urls}

\* reviewed_object_linked(obj): the outcomes the call may have.  The
\* argument tuple is built before reverse() is called, so a reference that
\* resolves to None fails on its .id first.
reviewed_object_linked(obj) ==
    IF obj.reviewed_object.none
    THEN {Raised("AttributeError")}
    ELSE LET urls == reverse(<<"admin:">> \o obj.content_type.app_label \o <<"_">>
                                 \o obj.content_type.model \o <<"_change">>,
                             <<obj.reviewed_object.v.id>>)
         IN  IF urls = {}
             THEN {Raised("NoReverseMatch")}
             ELSE {Returned(anchor(url, unicode(obj.reviewed_object.v))) : url \in urls}

\* The admin renders the "Reviewed model" column or field of a Review.
RenderModelLink(row) ==
    /\ row \in reviews
    /\ \E result \in reviewed_model_linked(Instance(row)) :
            response' = [op |-> "reviewed_model_linked", obj |-> Instance(row),
                         result |-> result]
    /\ UNCHANGED <<model_classes, admin_site, objects, reviews, last_id>>

\* The admin renders the "Reviewed object" column or field of a Review.
RenderObjectLink(row) ==
    /\ row \in reviews
    /\ \E result \in reviewed_object_linked(Instance(row)) :
            response' = [op |-> "reviewed_object_linked", obj |-> Instance(row),
                         result |-> result]
    /\ UNCHANGED <<model_classes, admin_site, objects, reviews, last_id>>

\* ------------------------------------------------- the admin's screens

\* readonly_fields without the score.
readonly_fields_without_score ==
    <<"reviewed_model_linked", "reviewed_object_linked", "user",
      "created", "is_updated">>

\* ReviewAdmin.readonly_fields
readonly_fields ==
    <<"reviewed_model_linked", "reviewed_object_linked", "user", "score",
      "created", "is_updated">>

\* ReviewAdmin.fields
fields == readonly_fields \o <<"comment", "anonymous", "comment_approved">>

\* The fields of the change form: those of ReviewAdmin.fields that are not
\* read-only.
form_fields == {fields[i] : i \in 1..Len(fields)} \ Range(readonly_fields)

\* A content type a forged POST names.
ForgedType == [app_label |-> <<"b">>, model |-> <<"d">>, name |-> <<"d">>]

\* What a moderator's POST may carry: the form's three fields, alone or
\* together with forged values for the columns the form does not offer.
PostData ==
    [comment : Comments, anonymous : BOOLEAN, comment_approved : BOOLEAN]
    \cup
    [comment : Comments, anonymous : BOOLEAN, comment_approved : BOOLEAN,
     user : Users, score : Scores, created : {0}, is_updated : {TRUE},
     content_type : {ForgedType}, object_id : {13}]

\* The row after the change form is saved: the form's fields take the
\* posted values, every other column keeps its own.
save_form(row, post) ==
    [f \in DOMAIN row |->
        IF f \in form_fields /\ f \in DOMAIN post THEN post[f] ELSE row[f]]

\* The change view: a moderator posts the change form of a Review.
AdminChange(row, post) ==
    /\ row \in reviews
    /\ reviews' = (reviews \ {row}) \cup {save_form(row, post)}
    /\ response' = [op |-> "change"]
    /\ UNCHANGED <<model_classes, admin_site, objects, last_id>>

\* Whether the admin lets a moderator delete Reviews: ModelAdmin's own
\* answer, which ReviewAdmin does not override.
has_delete_permission == TRUE

\* The delete view and the delete_selected action ReviewAdmin inherits.
AdminDelete(row) ==
    /\ row \in reviews
    /\ has_delete_permission
    /\ reviews' = reviews \ {row}
    /\ response' = [op |-> "delete"]
    /\ UNCHANGED <<model_classes, admin_site, objects, last_id>>

\* ------------------------------------------------- the specifications

\* The filter: reviews of the reviewable types are submitted, the type
\* list is asked for and the changelist is requested with every value.
SubmitAny ==
    \E klass \in ModelClasses, object_id \in ObjectIds :
        SubmitReview(klass, object_id, "ann", 5, <<>>, FALSE)

RequestChangeList == \E value \in RequestValues : ChangeListView(value)

\* Which classes the admin has registered does not matter to the filter.
InitFilter == Init /\ admin_site = {}

NextFilter ==
    \/ SubmitAny
    \/ GetReviewableModels
    \/ RequestChangeList

SpecFilter == InitFilter /\ [][NextFilter]_vars

\* The link columns: one reviewable class, any admin registration; the
\* reviewed records come and go while the admin renders the links.
InitLinks == Init /\ Len(model_classes) = 1

DeleteAny == \E o \in objects : DeleteObject(o)

RenderAnyModelLink == \E row \in reviews : RenderModelLink(row)

RenderAnyObjectLink == \E row \in reviews : RenderObjectLink(row)

NextLinks ==
    \/ SubmitAny
    \/ DeleteAny
    \/ RenderAnyModelLink
    \/ RenderAnyObjectLink

SpecLinks == InitLinks /\ [][NextLinks]_vars

\* The admin's screens: reviews are submitted with either score, and
\* moderators post the change form and delete.
InitAdmin ==
    /\ Init
    /\ Len(model_classes) = 1
    /\ admin_site = ModelClasses

SubmitScored ==
    \E klass \in ModelClasses, object_id \in ObjectIds, score \in Scores :
        SubmitReview(klass, object_id, "ann", score, <<>>, FALSE)

ChangeAny == \E row \in reviews, post \in PostData : AdminChange(row, post)

DeleteAnyReview == \E row \in reviews : AdminDelete(row)

NextAdmin ==
    \/ SubmitScored
    \/ ChangeAny
    \/ DeleteAnyReview

SpecAdmin == InitAdmin /\ [][NextAdmin]_vars

\* ------------------------------------------------------ the properties

\* A name with the first letter of each word a capital and every other
\* letter lower-case, stated position by position.
TitleCased(name) ==
    [j \in 1..Len(name) |->
        IF j = 1 \/ ~(islower(name[j - 1]) \/ isupper(name[j - 1]))
        THEN upper(name[j])
        ELSE lower(name[j])]

\* C1: lookups offers no choices (None, the filter is not shown) when fewer
\* than two reviewable types exist, and otherwise exactly one choice per
\* reviewable type: the i-th choice is keyed by the i-th type's name.
C1_LookupsOnePerType ==
    response.op = "changelist" =>
        /\ Len(model_classes) < 2 =>
                response.lookup_choices.none /\ ~response.applied
        /\ Len(model_classes) >= 2 =>
                /\ ~response.lookup_choices.none
                /\ response.applied
                /\ Len(response.lookup_choices.v) = Len(model_classes)
                /\ \A i \in 1..Len(model_classes) :
                        response.lookup_choices.v[i][1] = model_classes[i].verbose_name

C1_Witness ==
    /\ response.op = "changelist"
    /\ Len(model_classes) >= 2
    /\ ~response.lookup_choices.none
    /\ Len(response.lookup_choices.v) = 2

\* C2: with the key offered for a reviewable type selected, the filter
\* shows only Reviews whose reviewed type is that type.
C2_OnlyTheSelectedType ==
    (response.op = "changelist" /\ response.applied /\ ~response.value.none) =>
        \A i \in 1..Len(model_classes) :
            response.lookup_choices.v[i][1] = response.value.v =>
                \A j \in 1..Len(response.shown) :
                    response.shown[j].content_type = get_for_model(model_classes[i])

\* C3: with no value selected the filter is a no-op: queryset() hands back
\* nothing of its own and the list shown is the unfiltered list, row for
\* row.
C3_NoValueNoOp ==
    (response.op = "changelist" /\ response.value.none) =>
        /\ response.returned.none
        /\ response.shown = response.qs

C3_Witness ==
    /\ response.op = "changelist"
    /\ response.value.none
    /\ response.applied
    /\ Len(response.shown) >= 2

\* C4: get_reviewable_models returns one (key, label) pair per reviewable
\* type, in the registry's order, the key the type's name and the label
\* that name title-cased; for no types it returns the empty list.
C4_PairsInRegistryOrder ==
    response.op = "get_reviewable_models" =>
        /\ Len(response.result) = Len(model_classes)
        /\ \A i \in 1..Len(model_classes) :
                /\ Len(response.result[i]) = 2
                /\ response.result[i][1] = model_classes[i].verbose_name
                /\ response.result[i][2] = TitleCased(model_classes[i].verbose_name)
        /\ model_classes = <<>> => response.result = <<>>

C4_Witness ==
    /\ response.op = "get_reviewable_models"
    /\ Len(response.result) >= 2
    /\ response.result[1][1] /= response.result[2][1]
    /\ response.result[1][2] /= response.result[1][1]

\* C5: the list of get_reviewable_models holds distinct types only: no two
\* of its entries have the same key.
C5_DistinctKeys ==
    response.op = "get_reviewable_models" =>
        \A i, j \in 1..Len(response.result) :
            response.result[i][1] = response.result[j][1] => i = j

\* C10: with at least two reviewable types, selecting the choice offered
\* for a type shows exactly the Reviews of that type among the Reviews of
\* reviewable types: each such Review is shown for its own type's choice
\* and for no other choice.
C10_ChoicesPartitionReviews ==
    (response.op = "changelist" /\ response.applied /\ ~response.value.none) =>
        \A i \in 1..Len(model_classes) :
            response.lookup_choices.v[i][1] = response.value.v =>
                \A j \in 1..Len(response.qs) :
                    (\E k \in 1..Len(model_classes) :
                            response.qs[j].content_type = get_for_model(model_classes[k]))
                    => ((\E m \in 1..Len(response.shown) :
                                response.shown[m] = response.qs[j])
                        <=> response.qs[j].content_type = get_for_model(model_classes[i]))

\* The admin pages of a content type.
ChangelistPage(ct) == <<"/admin/">> \o ct.app_label \o <<"/">> \o ct.model \o <<"/">>

ChangePage(ct, id) == ChangelistPage(ct) \o str_int(id) \o <<"/">>

\* The classes registered with the admin whose routes bear the names the
\* content type's routes would bear.
RouteBearers(ct) ==
    {k \in admin_site :
        get_for_model(k).app_label \o <<"_">> \o get_for_model(k).model
            = ct.app_label \o <<"_">> \o ct.model}

\* The content type's own class is registered with the admin, and no other
\* registered class has routes of the same names.
HasOwnRoutes(ct) ==
    /\ RouteBearers(ct) /= {}
    /\ \A k \in RouteBearers(ct) : get_for_model(k) = ct

IsLinkCall == response.op \in {"reviewed_model_linked", "reviewed_object_linked"}

\* What each renderer is to return for a Review whose reference resolves.
LinksAreRight ==
    /\ response.op = "reviewed_model_linked" =>
            response.result =
                [outcome |-> "ok",
                 html |-> <<"<a href='">> \o ChangelistPage(response.obj.content_type)
                          \o <<"'>">> \o TitleCased(response.obj.content_type.name)
                          \o <<"</a>">>]
    /\ response.op = "reviewed_object_linked" =>
            response.result =
                [outcome |-> "ok",
                 html |-> <<"<a href='">>
                          \o ChangePage(response.obj.content_type, response.obj.object_id)
                          \o <<"'>">> \o response.obj.reviewed_object.v.name
                          \o <<"</a>">>]

\* C6: for every Review whose reference resolves to an existing record,
\* reviewed_model_linked returns an anchor to the changelist page of the
\* record's type labelled with the type's title-cased name, and
\* reviewed_object_linked an anchor to the change page of the record's id
\* labelled with the record's string form.
C6_LinksOfResolvedReference ==
    (IsLinkCall /\ ~response.obj.reviewed_object.none) => LinksAreRight

\* C6, amended: the same, for a Review whose reference resolves and whose
\* type is registered with the admin under route names no other registered
\* class bears.
C6_LinksOfRoutedResolvedReference ==
    (IsLinkCall /\ ~response.obj.reviewed_object.none
        /\ HasOwnRoutes(response.obj.content_type))
    => LinksAreRight

C6_Witness ==
    /\ response.op = "reviewed_object_linked"
    /\ ~response.obj.reviewed_object.none
    /\ HasOwnRoutes(response.obj.content_type)
    /\ response.result.outcome = "ok"
    /\ response.obj.id /= response.obj.object_id

\* C7: for a Review whose reference is dangling or whose type has no admin
\* route (no route of the type's names is registered), both link renderers
\* end in an error instead of returning an anchor.
C7_BothRenderersFail ==
    (IsLinkCall
        /\ (response.obj.reviewed_object.none
            \/ RouteBearers(response.obj.content_type) = {}))
    => response.result.outcome /= "ok"

\* The outcomes of the amended C7.
FailuresAreUncaught ==
    /\ (response.op = "reviewed_object_linked" /\ response.obj.reviewed_object.none) =>
            response.result = [outcome |-> "AttributeError", html |-> <<>>]
    /\ (IsLinkCall /\ RouteBearers(response.obj.content_type) = {}) =>
            /\ response.result.outcome \in {"NoReverseMatch", "AttributeError"}
            /\ response.result.html = <<>>
    /\ (response.op = "reviewed_model_linked" /\ response.obj.reviewed_object.none
            /\ RouteBearers(response.obj.content_type) /= {}) =>
            response.result.outcome = "ok"

\* C7, amended: a dangling reference makes reviewed_object_linked end in an
\* uncaught error (no anchor, no fallback value), while
\* reviewed_model_linked, which never reads the reviewed record, still
\* returns its anchor when a route of the type's name is registered; when
\* no registered class bears the type's route names both renderers end in
\* an uncaught error.  Rendering changes no stored Review.
C7_FailuresOfDanglingAndUnrouted ==
    /\ [](FailuresAreUncaught)
    /\ [][response' /= response => reviews' = reviews]_vars

C7_Witness ==
    /\ response.op = "reviewed_object_linked"
    /\ response.obj.reviewed_object.none
    /\ response.result.outcome = "AttributeError"
    /\ RouteBearers(response.obj.content_type) /= {}

\* C8: the change form's editable fields are exactly comment, anonymous
\* and comment_approved, the read-only fields exactly the two links, user,
\* score, created and is_updated; so no step of the admin changes a stored
\* Review's user, score, created time, updated flag or reviewed reference.
C8_ReadOnlyColumnsKept ==
    /\ [](/\ form_fields = {"comment", "anonymous", "comment_approved"}
          /\ Range(readonly_fields) =
                {"reviewed_model_linked", "reviewed_object_linked", "user",
                 "score", "created", "is_updated"})
    /\ [][\A old \in reviews : \A new \in reviews' :
            new.id = old.id =>
                /\ new.user = old.user
                /\ new.score = old.score
                /\ new.created = old.created
                /\ new.is_updated = old.is_updated
                /\ new.content_type = old.content_type
                /\ new.object_id = old.object_id]_vars

C8_Witness ==
    /\ response.op = "change"
    /\ \E r \in reviews :
            r.comment_approved /\ r.anonymous /\ r.comment = <<"o", "k">>

\* C9: no operation the admin registration makes available removes a
\* Review: a Review that exists in a state exists in every later state.
C9_NoReviewRemoved ==
    [][\A old \in reviews : \E new \in reviews' : new.id = old.id]_vars

====
